---- MODULE Spec2Model ----
(***************************************************************************)
(* Model of the AutoArchitect backend: the in-memory job store of          *)
(* backend/main.py (analyze_repository, get_job_status and the background  *)
(* worker process_repo_task), the clone-and-walk pipeline of               *)
(* backend/core/parser.py and the narrative generator of                   *)
(* backend/core/llm.py.                                                    *)
(*                                                                         *)
(* process_repo_task is a plain `def`, so the framework runs it on a       *)
(* worker thread; the two request handlers are `async def` without any     *)
(* await and run on the event loop.  A handler is therefore one atomic     *)
(* step, while every statement of the worker that reads or writes the job  *)
(* store or the file system is a step of its own that handlers and other   *)
(* workers may interleave with.                                            *)
(***************************************************************************)
EXTENDS Integers, Sequences, FiniteSets, TLC

\* ------------------------------------------------------------------ bounds
\* Number of job ids uuid4 can hand out in one run.
MaxJobs == 2
\* Largest number of files in a cloned tree (specification WalkSpec).
MaxFiles == 2

\* ------------------------------------------------------------- Optional[T]
\* Python's None and a present value; a missing dict key reads as None in
\* JobStatus(**record).
None == <<>>
Some(v) == <<v>>

\* ------------------------------------------------------------------- text
\* Strings that the code inspects are sequences of characters.
Str_git == <<".", "g", "i", "t">>
Str_github == <<".", "g", "i", "t", "h", "u", "b">>
Str_src == <<"s", "r", "c">>

Ext_py == <<".", "p", "y">>
Ext_js == <<".", "j", "s">>
Ext_jsx == <<".", "j", "s", "x">>
Ext_ts == <<".", "t", "s">>
Ext_tsx == <<".", "t", "s", "x">>

Name_a_py == <<"a", ".", "p", "y">>
Name_c_tsx == <<"c", ".", "t", "s", "x">>
Name_d_md == <<"d", ".", "m", "d">>

\* needle in hay (Python's `in` on str)
Contains(needle, hay) ==
    \E i \in 1..(Len(hay) - Len(needle) + 1) :
        SubSeq(hay, i, i + Len(needle) - 1) = needle

\* s.endswith(suffix)
EndsWith(s, suffix) ==
    /\ Len(suffix) <= Len(s)
    /\ SubSeq(s, Len(s) - Len(suffix) + 1, Len(s)) = suffix

\* s.endswith((".js", ".jsx", ".ts", ".tsx"))
EndsWithAny(s, suffixes) == \E x \in suffixes : EndsWith(s, x)

\* ------------------------------------------------------ outcomes of a call
\* A call either returns a value or raises an exception carrying a message.
Return(v) == [kind |-> "return", value |-> v]
Raise(msg) == [kind |-> "raise", error |-> msg]

\* ------------------------------------------------------- the cloned tree
\* A file of the working tree as os.walk yields it: the directory it is in
\* (root, relative to the temporary directory), its name, and what reading
\* and parsing it does:
\*   "ok"            readable, parses
\*   "syntax_error"  readable, ast.parse raises SyntaxError
\*   "unparseable"   readable, ast.parse raises another exception
\*                   (ValueError for a NUL byte, RecursionError, ...)
\*   "unreadable"    open() raises OSError (dangling symlink, no permission)
Roots == {Str_src, Str_git, Str_github}
FileNames == {Name_a_py, Name_c_tsx, Name_d_md}
Contents == {"ok", "syntax_error", "unparseable", "unreadable"}

FileEntries == [root : Roots, name : FileNames, content : Contents]

PathOf(f) == <<f.root, f.name>>

\* File systems hold one file per path.
DistinctPaths(tree) ==
    \A i, k \in 1..Len(tree) : i # k => PathOf(tree[i]) # PathOf(tree[k])

\* ------------------------------------------------- parser.py: extraction
\* What the structural walk collects from a file that parses; the facts
\* themselves are a function of the content and are not inspected further.
FactsOf(f) == {<<"facts", f.name>>}

parse_python_file(f) ==
    IF f.content = "unreadable" THEN Raise("OSError")
    ELSE IF f.content = "syntax_error"
         THEN Return([error |-> "SyntaxError", path |-> PathOf(f)])
    ELSE IF f.content = "unparseable" THEN Raise("ValueError")
    ELSE Return([language |-> "python",
                 path |-> PathOf(f),
                 imports |-> FactsOf(f),
                 classes |-> FactsOf(f),
                 functions |-> FactsOf(f),
                 hints |-> FactsOf(f)])

parse_js_file(f) ==
    IF f.content = "unreadable" THEN Raise("OSError")
    ELSE Return([language |-> "javascript/typescript",
                 path |-> PathOf(f),
                 imports |-> FactsOf(f),
                 hints |-> FactsOf(f)])

\* `if ".git" in root: continue`
SkipsRoot(root) == Contains(Str_git, root)

IsPython(name) == EndsWith(name, Ext_py)
IsJs(name) == EndsWithAny(name, {Ext_js, Ext_jsx, Ext_ts, Ext_tsx})

\* The loop body of analyze_repo for one file: the records so far, extended,
\* or the exception that leaves the loop.
VisitFile(f, file_nodes) ==
    IF SkipsRoot(f.root) THEN Return(file_nodes)
    ELSE IF IsPython(f.name)
         THEN LET r == parse_python_file(f)
              IN IF r.kind = "raise" THEN r
                 ELSE Return(Append(file_nodes, r.value))
    ELSE IF IsJs(f.name)
         THEN LET r == parse_js_file(f)
              IN IF r.kind = "raise" THEN r
                 ELSE Return(Append(file_nodes, r.value))
    ELSE Return(file_nodes)

RECURSIVE WalkFrom(_, _, _)
WalkFrom(tree, i, file_nodes) ==
    IF i > Len(tree) THEN Return(file_nodes)
    ELSE LET r == VisitFile(tree[i], file_nodes)
         IN IF r.kind = "raise" THEN r
            ELSE WalkFrom(tree, i + 1, r.value)

\* The try block of analyze_repo (the walk) and its return value.
WalkTree(repo_url, tree) ==
    LET r == WalkFrom(tree, 1, <<>>)
    IN IF r.kind = "raise" THEN r
       ELSE Return([repo |-> repo_url,
                    files |-> r.value,
                    structure_summary |-> Len(r.value)])

\* shutil.rmtree(path) with and without onerror=remove_readonly.  A
\* directory is "clean" (removable as it is) or "locked" (it holds read-only
\* entries that the platform refuses to delete until their attribute is
\* cleared, which is what remove_readonly does).  The result is the state of
\* the directory afterwards and whether rmtree raised.
remove_readonly(dir) == "none"

rmtree(dir, onerror) ==
    IF dir = "locked"
    THEN IF onerror THEN [dir |-> remove_readonly(dir), raised |-> FALSE]
         ELSE [dir |-> dir, raised |-> TRUE]
    ELSE [dir |-> "none", raised |-> FALSE]

\* ------------------------------------------------------ exception messages
\* str(e) of the exceptions that occur, as the characters the code inspects.
Msg_NotFound == <<"N", "o", "t", " ", "F", "o", "u", "n", "d">>
Msg_404 == <<"4", "0", "4", " ", "m", "o", "d", "e", "l">>
Msg_quota == <<"4", "2", "9">>
Msg_fallback == <<"5", "0", "3">>
Msg_clone == <<"c", "l", "o", "n", "e">>
Msg_rmtree == <<"r", "m", "t", "r", "e", "e">>
Msg_KeyError == <<"'", "c", "o", "n", "t", "e", "n", "t", "'">>
Msg_OSError == <<"O", "S", "E", "r", "r", "o", "r">>
Msg_ValueError == <<"V", "a", "l", "u", "e", "E", "r", "r", "o", "r">>

MsgOf(name) ==
    IF name = "OSError" THEN Msg_OSError ELSE Msg_ValueError

LowerChar(c) ==
    IF c = "N" THEN "n" ELSE IF c = "F" THEN "f" ELSE IF c = "O" THEN "o"
    ELSE IF c = "S" THEN "s" ELSE IF c = "E" THEN "e" ELSE IF c = "V" THEN "v"
    ELSE c

\* str.lower()
Lower(s) == [i \in 1..Len(s) |-> LowerChar(s[i])]

Str_404 == <<"4", "0", "4">>
Str_not_found == <<"n", "o", "t", " ", "f", "o", "u", "n", "d">>

\* ---------------------------------------------------- llm.py: the provider
\* The process environment: which API keys are set.
Envs == { [gemini_key |-> FALSE, openai_key |-> FALSE],
          [gemini_key |-> TRUE, openai_key |-> TRUE],
          [gemini_key |-> FALSE, openai_key |-> TRUE] }

get_llm_provider(e) ==
    IF e.gemini_key THEN "gemini"
    ELSE IF e.openai_key THEN "openai"
    ELSE "none"

\* What the remote models answer: text, possibly holding a fenced block.
PrimaryReply == [fence |-> "mermaid", body |-> "primary"]
FallbackReply == [fence |-> "none", body |-> "fallback"]

\* One narrative call's environment: the outcome of the primary request
\* and, should the code make it, of the request to the fallback model.
LlmOutcomes ==
    [primary : {Return(PrimaryReply), Raise(Msg_NotFound), Raise(Msg_404),
                Raise(Msg_quota)},
     fallback : {Return(FallbackReply), Raise(Msg_fallback)}]

\* The provider outcomes of the specification with several jobs.
RepoOutcomes ==
    { [primary |-> Raise(Msg_NotFound), fallback |-> Return(FallbackReply)] }

\* `"404" in msg or "not found" in msg.lower()`
IsUnsupported(msg) ==
    Contains(Str_404, msg) \/ Contains(Str_not_found, Lower(msg))

\* What a call did: the requests it made, in order, and how it ended.
Call(requests, outcome) == [requests |-> requests, outcome |-> outcome]

\* The second except clause re-raising its own exception e2.
CallGeminiRaisesFallbackError(o) ==
    IF o.primary.kind = "return" THEN Call(<<"primary">>, o.primary)
    ELSE IF IsUnsupported(o.primary.error)
         THEN Call(<<"primary", "fallback">>, o.fallback)
    ELSE Call(<<"primary">>, o.primary)

call_gemini_with_fallback(o) ==
    IF o.primary.kind = "return" THEN Call(<<"primary">>, o.primary)
    ELSE IF IsUnsupported(o.primary.error)
         THEN IF o.fallback.kind = "return"
              THEN Call(<<"primary", "fallback">>, o.fallback)
              ELSE Call(<<"primary", "fallback">>, o.primary)
    ELSE Call(<<"primary">>, o.primary)

\* The loop that builds file_context: f['path'] and f['content'] of every
\* file record; a record without such a key raises KeyError.
BuildContext(graph_data) ==
    IF \E i \in 1..Len(graph_data.files) :
           "content" \notin DOMAIN graph_data.files[i]
    THEN Raise(Msg_KeyError)
    ELSE Return("file_context")

\* The provider call inside the try block of both generators.
CallProvider(provider, o) ==
    IF provider = "gemini" THEN call_gemini_with_fallback(o).outcome
    ELSE o.primary

PlaceholderNoKey == <<"placeholder", "no key">>
PlaceholderError(msg) == <<"placeholder", "error", msg>>
MockMermaid == <<"mock mermaid">>

generate_architecture_summary(e, graph_data, o) ==
    LET provider == get_llm_provider(e)
    IN IF provider = "none" THEN Return(PlaceholderNoKey)
       ELSE LET c == BuildContext(graph_data)
            IN IF c.kind = "raise" THEN c
               ELSE LET r == CallProvider(provider, o)
                    IN IF r.kind = "raise"
                       THEN Return(PlaceholderError(r.error))
                       ELSE Return(<<"llm", r.value>>)

\* The cleanup of the reply: the body of a fenced block when there is one.
StripFence(reply) == <<"llm", [fence |-> "none", body |-> reply.body]>>

generate_mermaid(e, graph_data, o) ==
    LET provider == get_llm_provider(e)
    IN IF provider = "none" THEN Return(MockMermaid)
       ELSE LET c == BuildContext(graph_data)
            IN IF c.kind = "raise" THEN c
               ELSE LET r == CallProvider(provider, o)
                    IN IF r.kind = "raise" THEN Return(MockMermaid)
                       ELSE Return(StripFence(r.value))

\* ---------------------------------------------------------------- inputs
JobIds == 1..MaxJobs
\* Ids a caller may poll: 0 is an id uuid4 never returns.
PollIds == 0..MaxJobs

\* A repository URL as its segments after the scheme: host, owner, name.
Url_r == <<"github.com", "o", "r">>
Url_missing == <<"github.com", "o", "missing">>
\* "https://github.com/o/": an owner and no repository name.
Url_owner_only == <<"github.com", "o">>

\* URLs of repositories, and every string a caller may post.
RepoUrls == {Url_r, Url_missing}
Urls == RepoUrls \cup {Url_owner_only}

\* The remote side: one repository exists and can be cloned; the clone of
\* any other URL fails.
RepoExists(repo_url) == repo_url = Url_r

\* Working trees a successful clone may produce.
RepoTrees ==
    { <<>>,
      <<[root |-> Str_src, name |-> Name_a_py, content |-> "syntax_error"],
        [root |-> Str_src, name |-> Name_c_tsx, content |-> "ok"]>>,
      <<[root |-> Str_src, name |-> Name_c_tsx, content |-> "ok"],
        [root |-> Str_src, name |-> Name_a_py, content |-> "unreadable"]>> }

\* A file name decides which contents can be told apart: only .py files are
\* parsed with a grammar, and files of other types are never opened.
ContentsFor(name) ==
    IF IsPython(name) THEN Contents
    ELSE IF IsJs(name) THEN {"ok", "unreadable"}
    ELSE {"ok"}

TreeFiles == {f \in FileEntries : f.content \in ContentsFor(f.name)}

\* Every working tree of at most MaxFiles files.
Trees ==
    UNION { {t \in [1..n -> TreeFiles] : DistinctPaths(t)} : n \in 0..MaxFiles }

\* ----------------------------------------------------------------- state
VARIABLES
    env,          \* the process environment (API keys), fixed at start
    remote,       \* the working trees a clone of the repository may yield
    llm,          \* the outcomes a request to the narrative provider may have
    ids,          \* the ids uuid4 hands out in this run
    urls,         \* the repo_url values callers post in this run
    listing,      \* API-tree strategy: the tree listing the host returns
    snapshot,     \* API-tree strategy: what the acquisition returned
    jobs,         \* main.py `jobs`: job id -> record (a dict)
    task,         \* the background task added for a job: its arguments
    pc,           \* where the worker of a job is in process_repo_task
    tmpdir,       \* the temporary directory of a job's clone
    cloned,       \* the working tree the clone of a job produced
    graph_data,   \* worker local: what analyze_repo returned
    summary,      \* worker local
    mermaid_code, \* worker local
    exc,          \* worker local: the exception being handled
    steps,        \* per job, the pipeline stages that ran and how they ended
    resp          \* the response to the latest request

vars == <<env, remote, llm, ids, urls, listing, snapshot, jobs, task, pc, tmpdir, cloned, graph_data, summary,
          mermaid_code, exc, steps, resp>>

\* ------------------------------------------------------- main.py: records
\* dict item assignment d[k] = v
SetKey(d, k, v) == [x \in DOMAIN d \cup {k} |-> IF x = k THEN v ELSE d[x]]

\* JobStatus(**record): the response model; keys it does not declare are
\* dropped, missing optional keys read None.
JobStatus(rec) ==
    [job_id |-> rec.job_id,
     status |-> rec.status,
     result |-> IF "result" \in DOMAIN rec THEN Some(rec.result) ELSE None,
     error |-> IF "error" \in DOMAIN rec THEN Some(rec.error) ELSE None]

\* A record stored as already being processed.
NewJobProcessing(job_id, repo_url) ==
    [job_id |-> job_id, status |-> "processing", repo_url |-> repo_url]

\* The record analyze_repository stores.
NewJob(job_id, repo_url) ==
    [job_id |-> job_id, status |-> "queued", repo_url |-> repo_url]

\* An id generator with too few values (a counter that wraps, a truncated
\* uuid): it may return an id that is in use.
ShortId(store) == ids

\* uuid.uuid4(): an id no earlier call returned.
uuid4(store) == ids \ DOMAIN store

\* An except clause that names one exception type only.
CatchesCloneErrorOnly(e) == e = Msg_clone

\* `except Exception`: every exception the pipeline raises is caught.
Catches(e) == TRUE

\* Where the worker goes when its try block raises e.
Handler(e) == IF Catches(e) THEN "except" ELSE "crashed"

\* Per stage "none" (not run), "return" or "raise" (clone: "ok", "failed");
\* per generator what became of its provider request: "none" (generator
\* not run, or it raised before the request), "absent" (no client), "ok",
\* "failed"; and per generator the call of call_gemini_with_fallback it
\* made, if any: what the models had to answer and what the call did.
NoSteps == [clone |-> "none", walk |-> "none", summary |-> "none",
            mermaid |-> "none", summary_llm |-> "none",
            mermaid_llm |-> "none", summary_call |-> None,
            mermaid_call |-> None]

\* The state after import of main.py, in a world where a clone yields one
\* of `trees`, a provider request ends in one of `outcomes`, uuid4 draws
\* from `idset`, callers post the URLs of `posted` and, where the API-tree
\* strategy is configured, the host lists the tree `host_listing`.
InitWith(trees, outcomes, idset, posted, host_listing) ==
    /\ env \in Envs
    /\ remote = trees
    /\ llm = outcomes
    /\ ids = idset
    /\ urls = posted
    /\ listing = host_listing
    /\ snapshot = None
    /\ jobs = << >>
    /\ task = [j \in JobIds |-> None]
    /\ pc = [j \in JobIds |-> "idle"]
    /\ tmpdir = [j \in JobIds |-> "none"]
    /\ cloned = [j \in JobIds |-> None]
    /\ graph_data = [j \in JobIds |-> None]
    /\ summary = [j \in JobIds |-> None]
    /\ mermaid_code = [j \in JobIds |-> None]
    /\ exc = [j \in JobIds |-> None]
    /\ steps = [j \in JobIds |-> NoSteps]
    /\ resp = None

\* Several jobs at once: what matters is how requests and workers interleave.
Init == InitWith(RepoTrees, RepoOutcomes, JobIds, RepoUrls, None)

\* One job, and everything a clone and the provider can do to it.
PipelineInit == \E t \in Trees : InitWith({t}, LlmOutcomes, {1}, Urls, None)

\* ------------------------------------- ContentAcquirer: API-tree strategy
\* The strategy without a local clone.  Its implementation is not among the
\* source files of the backend; it is modelled from section 4.2 of the
\* design (steps 3 to 6).
MaxListing == 48

\* The fixed cap on the number of files acquired.
MaxApiFiles == 30

ExcludedSegments == {"node_modules", "vendor", "dist", "build", ".git"}
AllowedExtensions == {"py", "js", "ts", "md"}

\* Entry i of a tree listing of shape p: its type, the directory segments
\* and the file name of its path, its extension and whether its blob
\* decodes.  Shape 1 is all source files; shape 2 has every third entry
\* under node_modules and some blobs that do not decode; shape 3 mixes
\* version-control and build directories and tree-type entries; shape 4 has
\* images between the sources.
Entry(i, p) ==
    [type |-> IF p = 3 /\ i % 4 = 2 THEN "tree" ELSE "blob",
     dir |-> IF p = 2 /\ i % 3 = 0 THEN <<"node_modules", "pkg">>
             ELSE IF p = 3 /\ i % 4 = 0 THEN <<".git", "objects">>
             ELSE IF p = 3 /\ i % 4 = 1 THEN <<"web", "dist">>
             ELSE <<"src">>,
     name |-> i,
     ext |-> IF p = 4 /\ i % 2 = 0 THEN "png"
             ELSE IF i % 2 = 1 THEN "py" ELSE "md",
     decodes |-> ~(p = 2 /\ i % 5 = 1)]

Listings ==
    { [i \in 1..n |-> Entry(i, p)] : n \in 0..MaxListing, p \in 1..4 }

\* Step 3: blobs with an allowed extension, outside excluded directories.
KeepEntry(e) ==
    /\ e.type = "blob"
    /\ e.ext \in AllowedExtensions
    /\ \A k \in 1..Len(e.dir) : e.dir[k] \notin ExcludedSegments

RECURSIVE FilterEntries(_)
FilterEntries(entries) ==
    IF entries = <<>> THEN <<>>
    ELSE IF KeepEntry(Head(entries))
         THEN <<Head(entries)>> \o FilterEntries(Tail(entries))
         ELSE FilterEntries(Tail(entries))

\* A listing passed on whole.
KeepAll(entries) == entries

\* Step 4: the first MaxApiFiles entries, in listing order.
Truncate(entries) ==
    IF Len(entries) > MaxApiFiles THEN SubSeq(entries, 1, MaxApiFiles)
    ELSE entries

\* Step 5 and 6: one record per blob that decodes, with its raw content.
RECURSIVE FetchBlobs(_)
FetchBlobs(entries) ==
    IF entries = <<>> THEN <<>>
    ELSE IF Head(entries).decodes
         THEN <<[path |-> Append(Head(entries).dir, Head(entries).name),
                 content |-> "text"]>> \o FetchBlobs(Tail(entries))
         ELSE FetchBlobs(Tail(entries))

acquire_api(repo_url, entries) ==
    [repo |-> repo_url, files |-> FetchBlobs(Truncate(FilterEntries(entries)))]

\* ------------------------------------------------------ request handlers
\* POST /analyze.  The handler has no await, and the background task starts
\* only after the response is sent.
analyze_repository(repo_url) ==
    \E job_id \in uuid4(jobs) :
        /\ jobs' = SetKey(jobs, job_id, NewJob(job_id, repo_url))
        /\ task' = [task EXCEPT ![job_id] =
                        Some([job_id |-> job_id, repo_url |-> repo_url])]
        /\ pc' = [pc EXCEPT ![job_id] = "scheduled"]
        /\ resp' = Some([op |-> "analyze", id |-> job_id, code |-> 200,
                         body |-> Some(JobStatus(jobs'[job_id]))])
        /\ UNCHANGED <<env, remote, llm, ids, urls, listing, snapshot, tmpdir, cloned, graph_data, summary,
                       mermaid_code, exc, steps>>

\* A lookup with a default record, jobs.get(job_id, {...}), in place of the
\* membership test.
JobResponseDefault(store, job_id) ==
    [op |-> "get", id |-> job_id, code |-> 200,
     body |-> Some(JobStatus(IF job_id \in DOMAIN store THEN store[job_id]
                             ELSE NewJob(job_id, <<>>)))]

\* The response of GET /jobs/{job_id} on the store.
JobResponse(store, job_id) ==
    IF job_id \notin DOMAIN store
    THEN [op |-> "get", id |-> job_id, code |-> 404, body |-> None]
    ELSE [op |-> "get", id |-> job_id, code |-> 200,
          body |-> Some(JobStatus(store[job_id]))]

\* A poll that drops a finished job from the store once it has been read:
\* jobs.pop(job_id) in place of jobs[job_id].
GetJobStatusEvicts(job_id) ==
    /\ resp' = Some(JobResponse(jobs, job_id))
    /\ jobs' = IF job_id \in DOMAIN jobs /\ jobs[job_id].status \in {"completed", "failed"}
               THEN [x \in DOMAIN jobs \ {job_id} |-> jobs[x]]
               ELSE jobs
    /\ UNCHANGED <<env, remote, llm, ids, urls, listing, snapshot, task, pc, tmpdir, cloned, graph_data,
                   summary, mermaid_code, exc, steps>>

\* GET /jobs/{job_id}
get_job_status(job_id) ==
    /\ resp' = Some(JobResponse(jobs, job_id))
    /\ UNCHANGED <<env, remote, llm, ids, urls, listing, snapshot, jobs, task, pc, tmpdir, cloned, graph_data,
                   summary, mermaid_code, exc, steps>>

\* ---------------------------------------------------- parser.py: pipeline
\* clone_repo: mkdtemp, then the shallow clone.  `ok` says whether the clone
\* succeeds, `dir` what it leaves in the directory ("clean" or "locked":
\* read-only entries), t the working tree of a successful clone.  On failure
\* the directory is removed with a plain rmtree and the clone's exception
\* re-raised, unless rmtree raises first.
clone_repo(ok, dir, t) ==
    IF ok THEN [kind |-> "return", tmpdir |-> dir, tree |-> t]
    ELSE LET r == rmtree(dir, FALSE)
         IN [kind |-> "raise", tmpdir |-> r.dir,
             error |-> IF r.raised THEN Msg_rmtree ELSE Msg_clone]

\* analyze_repo: the clone, the walk inside try, the rmtree with
\* onerror=remove_readonly inside finally, then the return.  An exception
\* raised by the cleanup replaces the one of the walk.
analyze_repo(repo_url, ok, dir, t) ==
    LET c == clone_repo(ok, dir, t)
    IN IF c.kind = "raise"
       THEN [kind |-> "raise", tmpdir |-> c.tmpdir, error |-> c.error,
             clone |-> "failed", walk |-> "none"]
       ELSE LET w == WalkTree(repo_url, c.tree)
                d == rmtree(c.tmpdir, TRUE)
            IN IF d.raised
               THEN [kind |-> "raise", tmpdir |-> d.dir, error |-> Msg_rmtree,
                     clone |-> "ok", walk |-> w.kind]
               ELSE IF w.kind = "raise"
               THEN [kind |-> "raise", tmpdir |-> d.dir,
                     error |-> MsgOf(w.error),
                     clone |-> "ok", walk |-> "raise"]
               ELSE [kind |-> "return", tmpdir |-> d.dir, value |-> w.value,
                     clone |-> "ok", walk |-> "return"]

\* --------------------------------------------- main.py: process_repo_task
\* The worker touches the job store in five statements (lines 54, 68, 69,
\* 78, 79); each is a step.  What lies between the first and the next of
\* them (lines 57-66: analyze_repo and the two generators) works on the
\* job's own temporary directory and on locals only, and is one step.
\* A status write that stores a new dict, jobs[job_id] = {...}, in place of
\* the item assignment.
SetStatusReplacesRecord(j, value) ==
    jobs' = [jobs EXCEPT ![j] = [job_id |-> j, status |-> value]]

SetStatus(j, value) == jobs' = [jobs EXCEPT ![j] = SetKey(@, "status", value)]

\* A worker that goes straight into the try block and leaves the status
\* as it found it.
StartTaskKeepsStatus(j) ==
    /\ pc[j] = "scheduled"
    /\ pc' = [pc EXCEPT ![j] = "running"]
    /\ UNCHANGED <<env, remote, llm, ids, urls, listing, snapshot, jobs, task, tmpdir,
                   cloned, graph_data, summary, mermaid_code, exc, steps, resp>>

\* line 54: jobs[job_id]["status"] = "processing"
StartTask(j) ==
    /\ pc[j] = "scheduled"
    /\ SetStatus(j, "processing")
    /\ pc' = [pc EXCEPT ![j] = "running"]
    /\ UNCHANGED <<env, remote, llm, ids, urls, listing, snapshot, task, tmpdir, cloned, graph_data, summary,
                   mermaid_code, exc, steps, resp>>

\* The try block is left by exception e.
Raised(j, e) ==
    /\ exc' = [exc EXCEPT ![j] = Some(e)]
    /\ pc' = [pc EXCEPT ![j] = Handler(e)]

\* The requests a generator may make; without a client it makes none.
Outcomes(e) ==
    IF get_llm_provider(e) = "none"
    THEN {[primary |-> Raise(Msg_quota), fallback |-> Raise(Msg_fallback)]}
    ELSE llm

\* What became of the provider request of a generator that returned.
LlmUse(e, o) ==
    IF get_llm_provider(e) = "none" THEN "absent"
    ELSE IF CallProvider(get_llm_provider(e), o).kind = "raise" THEN "failed"
    ELSE "ok"

\* The call of call_gemini_with_fallback a generator that returned made.
GeminiCall(e, o) ==
    IF get_llm_provider(e) = "gemini"
    THEN Some([given |-> o, did |-> call_gemini_with_fallback(o)])
    ELSE None

\* How the stages of one run ended.
Stages(a, s, m, sl, ml, sc, mc) ==
    [clone |-> a.clone, walk |-> a.walk, summary |-> s, mermaid |-> m,
     summary_llm |-> sl, mermaid_llm |-> ml, summary_call |-> sc,
     mermaid_call |-> mc]

\* The stages when no generator ran to its provider request.
StagesBefore(a, s) == Stages(a, s, "none", "none", "none", None, None)

\* lines 65-66: the two generators on the snapshot analyze_repo returned.
Generate(j, a) ==
    /\ graph_data' = [graph_data EXCEPT ![j] = Some(a.value)]
    /\ \E o1 \in Outcomes(env) :
        LET s == generate_architecture_summary(env, a.value, o1)
        IN IF s.kind = "raise"
           THEN /\ Raised(j, s.error)
                /\ steps' = [steps EXCEPT ![j] = StagesBefore(a, "raise")]
                /\ UNCHANGED <<summary, mermaid_code>>
           ELSE /\ summary' = [summary EXCEPT ![j] = Some(s.value)]
                /\ \E o2 \in Outcomes(env) :
                     LET m == generate_mermaid(env, a.value, o2)
                     IN /\ steps' = [steps EXCEPT ![j] =
                              Stages(a, "return", m.kind, LlmUse(env, o1),
                                     IF m.kind = "raise" THEN "none"
                                     ELSE LlmUse(env, o2),
                                     GeminiCall(env, o1),
                                     IF m.kind = "raise" THEN None
                                     ELSE GeminiCall(env, o2))]
                        /\ IF m.kind = "raise"
                           THEN /\ Raised(j, m.error)
                                /\ UNCHANGED mermaid_code
                           ELSE /\ mermaid_code' = [mermaid_code EXCEPT ![j] =
                                                       Some(m.value)]
                                /\ pc' = [pc EXCEPT ![j] = "set_completed"]
                                /\ UNCHANGED exc

\* analyze_repo raised: no generator runs.
AnalysisRaised(j, a) ==
    /\ Raised(j, a.error)
    /\ steps' = [steps EXCEPT ![j] = StagesBefore(a, "none")]
    /\ UNCHANGED <<graph_data, summary, mermaid_code>>

\* lines 57-66: analyze_repo, then the generators.  The clone of a missing
\* repository fails; the clone of one that exists yields one of its working
\* trees.
RunPipeline(j) ==
    /\ pc[j] = "running"
    /\ \E dir \in {"clean", "locked"} :
         \/ /\ ~RepoExists(task[j][1].repo_url)
            /\ LET a == analyze_repo(task[j][1].repo_url, FALSE, dir, <<>>)
               IN /\ tmpdir' = [tmpdir EXCEPT ![j] = a.tmpdir]
                  /\ AnalysisRaised(j, a)
                  /\ UNCHANGED cloned
         \/ /\ RepoExists(task[j][1].repo_url)
            /\ \E t \in remote :
                 LET a == analyze_repo(task[j][1].repo_url, TRUE, dir, t)
                 IN /\ tmpdir' = [tmpdir EXCEPT ![j] = a.tmpdir]
                    /\ cloned' = [cloned EXCEPT ![j] = Some(t)]
                    /\ IF a.kind = "raise"
                       THEN AnalysisRaised(j, a)
                       ELSE Generate(j, a)
    /\ UNCHANGED <<env, remote, llm, ids, urls, listing, snapshot, jobs, task, resp>>

\* The dict of lines 69-73.
Result(graph, text, diagram) ==
    [graph |-> graph, summary |-> text, mermaid |-> diagram]

\* line 68: jobs[job_id]["status"] = "completed"
SetCompleted(j) ==
    /\ pc[j] = "set_completed"
    /\ SetStatus(j, "completed")
    /\ pc' = [pc EXCEPT ![j] = "set_result"]
    /\ UNCHANGED <<env, remote, llm, ids, urls, listing, snapshot, task, tmpdir, cloned, graph_data, summary,
                   mermaid_code, exc, steps, resp>>

\* The assignment of the result raising inside the try block.
SetResultRaises(j) ==
    /\ pc[j] = "set_result"
    /\ Raised(j, Msg_KeyError)
    /\ UNCHANGED <<env, remote, llm, ids, urls, listing, snapshot, jobs, task, tmpdir, cloned,
                   graph_data, summary, mermaid_code, steps, resp>>

\* lines 69-73: jobs[job_id]["result"] = {...}; the function then returns
\* and its locals are gone.
SetResult(j) ==
    /\ pc[j] = "set_result"
    /\ jobs' = [jobs EXCEPT ![j] =
           SetKey(@, "result",
                  Result(graph_data[j][1], summary[j][1], mermaid_code[j][1]))]
    /\ pc' = [pc EXCEPT ![j] = "done"]
    /\ graph_data' = [graph_data EXCEPT ![j] = None]
    /\ summary' = [summary EXCEPT ![j] = None]
    /\ mermaid_code' = [mermaid_code EXCEPT ![j] = None]
    /\ UNCHANGED <<env, remote, llm, ids, urls, listing, snapshot, task, tmpdir, cloned, exc, steps, resp>>

\* line 78, in the except clause: jobs[job_id]["status"] = "failed"
SetFailed(j) ==
    /\ pc[j] = "except"
    /\ SetStatus(j, "failed")
    /\ pc' = [pc EXCEPT ![j] = "set_error"]
    /\ UNCHANGED <<env, remote, llm, ids, urls, listing, snapshot, task, tmpdir, cloned, graph_data, summary,
                   mermaid_code, exc, steps, resp>>

\* An except clause that puts the task back on the queue after recording
\* the error.
SetErrorRetries(j) ==
    /\ pc[j] = "set_error"
    /\ jobs' = [jobs EXCEPT ![j] = SetKey(@, "error", exc[j][1])]
    /\ pc' = [pc EXCEPT ![j] = "scheduled"]
    /\ graph_data' = [graph_data EXCEPT ![j] = None]
    /\ summary' = [summary EXCEPT ![j] = None]
    /\ mermaid_code' = [mermaid_code EXCEPT ![j] = None]
    /\ exc' = [exc EXCEPT ![j] = None]
    /\ UNCHANGED <<env, remote, llm, ids, urls, listing, snapshot, task, tmpdir, cloned, steps, resp>>

\* line 79: jobs[job_id]["error"] = str(e); the function then returns.
SetError(j) ==
    /\ pc[j] = "set_error"
    /\ jobs' = [jobs EXCEPT ![j] = SetKey(@, "error", exc[j][1])]
    /\ pc' = [pc EXCEPT ![j] = "done"]
    /\ graph_data' = [graph_data EXCEPT ![j] = None]
    /\ summary' = [summary EXCEPT ![j] = None]
    /\ mermaid_code' = [mermaid_code EXCEPT ![j] = None]
    /\ exc' = [exc EXCEPT ![j] = None]
    /\ UNCHANGED <<env, remote, llm, ids, urls, listing, snapshot, task, tmpdir, cloned, steps, resp>>

\* One step of the worker of job j.
Worker(j) ==
    \/ StartTask(j)
    \/ RunPipeline(j)
    \/ SetCompleted(j)
    \/ SetResult(j)
    \/ SetFailed(j)
    \/ SetError(j)

Next ==
    \/ \E repo_url \in urls : analyze_repository(repo_url)
    \/ \E job_id \in PollIds : get_job_status(job_id)
    \/ \E j \in JobIds : Worker(j)

Spec == Init /\ [][Next]_vars

\* Submissions and workers without pollers: get_job_status changes nothing
\* but the response the caller holds, so what the jobs do and where they end
\* is the same with and without it.
SubmitOrWork ==
    \/ \E repo_url \in urls : analyze_repository(repo_url)
    \/ \E j \in JobIds : Worker(j)

PipelineSpec == PipelineInit /\ [][SubmitOrWork]_vars

\* The thread pool runs every scheduled task and a running task is never
\* starved: each worker keeps taking steps while it has one to take.
FairSpec ==
    Init /\ [][SubmitOrWork]_vars /\ \A j \in JobIds : WF_vars(Worker(j))

\* The API-tree strategy on its own: one acquisition of the listing the
\* host returns.
ApiInit == \E l \in Listings : InitWith({}, RepoOutcomes, {}, {}, Some(l))

AcquireApi ==
    /\ listing # None
    /\ snapshot = None
    /\ snapshot' = Some(acquire_api(Url_r, listing[1]))
    /\ UNCHANGED <<env, remote, llm, ids, urls, listing, jobs, task, pc, tmpdir,
                   cloned, graph_data, summary, mermaid_code, exc, steps, resp>>

ApiSpec == ApiInit /\ [][AcquireApi]_vars

\* ================================================================== claims
Terminal == {"completed", "failed"}

\* The moves of a job's status that the state machine allows.
StatusMoves ==
    { <<"queued", "processing">>,
      <<"processing", "completed">>,
      <<"processing", "failed">> }

\* b is a or comes after a on one path of the state machine.
NotBefore(a, b) ==
    \/ a = b
    \/ <<a, b>> \in StatusMoves
    \/ a = "queued" /\ b \in Terminal

IsGet(r) == r # None /\ r[1].op = "get"
IsFound(r) == IsGet(r) /\ r[1].code = 200

\* r and r2 answer two get_job_status calls on the same id, r2 the later,
\* with no other request between them.
TwoPolls(r, r2) == IsFound(r) /\ IsFound(r2) /\ r[1].id = r2[1].id

\* C1: the status of a stored job starts at queued and only ever moves
\* queued -> processing -> completed or queued -> processing -> failed, so
\* the statuses a job has held form a prefix of one of these two sequences;
\* and of two polls of an id the later never shows an earlier status, nor
\* the other terminal status.
C1_StatusOrder ==
    [][ /\ \A j \in DOMAIN jobs' \ DOMAIN jobs : jobs'[j].status = "queued"
        /\ \A j \in DOMAIN jobs :
              /\ j \in DOMAIN jobs'
              /\ \/ jobs'[j].status = jobs[j].status
                 \/ <<jobs[j].status, jobs'[j].status>> \in StatusMoves
        /\ TwoPolls(resp, resp') =>
              NotBefore(resp[1].body[1].status, resp'[1].body[1].status)
      ]_vars

\* A poll answered "processing" for a job that has completed since.
C1_Witness ==
    \E j \in DOMAIN jobs :
        /\ IsFound(resp) /\ resp[1].id = j
        /\ resp[1].body[1].status = "processing"
        /\ jobs[j].status = "completed"

\* C2: a job whose status is completed has a result, in the store and in
\* every response of get_job_status.
C2_CompletedHasResult ==
    /\ \A j \in DOMAIN jobs :
          jobs[j].status = "completed" => "result" \in DOMAIN jobs[j]
    /\ IsFound(resp) /\ resp[1].body[1].status = "completed" =>
          resp[1].body[1].result # None

\* C3: under fair scheduling of the workers every submitted job eventually
\* has status completed or failed.
C3_ReachesTerminal ==
    \A j \in JobIds :
        (j \in DOMAIN jobs) ~> (j \in DOMAIN jobs /\ jobs[j].status \in Terminal)

\* A job whose worker ran to its end after a generator raised.
C3_Witness ==
    \E j \in DOMAIN jobs :
        /\ jobs[j].status = "failed"
        /\ steps[j].summary = "raise"
        /\ pc[j] = "done"

IsPlaceholder(text) == text[1] \in {"placeholder", "mock mermaid"}

\* C4: a job whose analyze_repo returned a snapshot never fails, whatever
\* the provider configuration and whatever the provider answers; once its
\* worker is done it is completed, and then the summary, and the diagram,
\* is the placeholder text when its generator had no client or its provider
\* request failed.
C4_SnapshotSuffices ==
    \A j \in DOMAIN jobs :
        steps[j].walk = "return" =>
            /\ jobs[j].status # "failed"
            /\ pc[j] = "done" =>
                  /\ jobs[j].status = "completed"
                  /\ steps[j].summary_llm \in {"absent", "failed"} =>
                        IsPlaceholder(jobs[j].result.summary)
                  /\ steps[j].mermaid_llm \in {"absent", "failed"} =>
                        IsPlaceholder(jobs[j].result.mermaid)

\* C5: the temporary directory of a job whose status is completed or failed
\* no longer exists.
C5_DirectoryReleased ==
    \A j \in DOMAIN jobs :
        jobs[j].status \in Terminal => tmpdir[j] = "none"

\* C6: a job whose clone failed is never completed, never has a generator
\* invoked, and once its worker is done is failed with the clone's own
\* message as its error.
C6_CloneFailurePreserved ==
    \A j \in DOMAIN jobs :
        steps[j].clone = "failed" =>
            /\ jobs[j].status # "completed"
            /\ steps[j].summary = "none" /\ steps[j].mermaid = "none"
            /\ pc[j] = "done" =>
                  /\ jobs[j].status = "failed"
                  /\ "error" \in DOMAIN jobs[j]
                  /\ jobs[j].error = Msg_clone

\* A file analyze_repo is to record: a supported extension, in a directory
\* the walk does not skip.
Supported(f) == IsPython(f.name) \/ IsJs(f.name)
Recorded(f) == Supported(f) /\ ~SkipsRoot(f.root)

IsDegraded(rec) == DOMAIN rec = {"error", "path"}

\* C7: the walk of a cloned tree never raises, whatever reading or parsing
\* one of its files does; in the snapshot a file with a syntax error has a
\* record with a path and an error marker only, and every other file to be
\* recorded has its record.
C7_FileErrorsIsolated ==
    \A j \in DOMAIN jobs :
        cloned[j] # None =>
            /\ steps[j].walk # "raise"
            /\ graph_data[j] # None =>
                  LET t == cloned[j][1]
                      files == graph_data[j][1].files
                  IN \A i \in 1..Len(t) :
                        Recorded(t[i]) =>
                            \E k \in 1..Len(files) :
                                /\ files[k].path = PathOf(t[i])
                                /\ IsDegraded(files[k]) <=>
                                      (IsPython(t[i].name)
                                       /\ t[i].content = "syntax_error")

\* C8: a get_job_status on an id that analyze_repository has not returned is
\* answered 404 and carries no job record.
C8_UnknownIdNotFound ==
    IsGet(resp) /\ resp[1].id \notin DOMAIN jobs =>
        resp[1].code = 404 /\ resp[1].body = None

\* The never-issued id was polled while the store holds a finished job.
C8_Witness ==
    /\ IsGet(resp) /\ resp[1].id = 0 /\ resp[1].code = 404
    /\ \E j \in DOMAIN jobs : pc[j] = "done"

\* C9: analyze_repository stores a queued record for the id it returns,
\* with the worker scheduled and not yet started, and answers status queued;
\* no step removes a stored job; and a get_job_status on a stored id is
\* answered with a record.
C9_SubmitStoresQueued ==
    /\ [][ /\ \A j \in DOMAIN jobs' \ DOMAIN jobs :
                 /\ jobs'[j].status = "queued"
                 /\ pc'[j] = "scheduled"
                 /\ resp' # None /\ resp'[1].op = "analyze" /\ resp'[1].id = j
           /\ DOMAIN jobs \subseteq DOMAIN jobs'
           /\ (IsGet(resp') /\ resp' # resp /\ resp'[1].id \in DOMAIN jobs) =>
                 resp'[1].code = 200
         ]_vars
    /\ [](resp # None /\ resp[1].op = "analyze" =>
             /\ resp[1].code = 200
             /\ resp[1].body[1].status = "queued"
             /\ resp[1].id \in DOMAIN jobs)

\* The response to a submission is still the latest one, its worker has
\* not started, and another job has already finished.
C9_Witness ==
    /\ resp # None /\ resp[1].op = "analyze"
    /\ pc[resp[1].id] = "scheduled"
    /\ \E j \in DOMAIN jobs : pc[j] = "done"

\* C10: once the status of a job is completed or failed its record is never
\* written again, and of two polls of an id the later repeats the earlier
\* whenever the earlier showed a terminal status.
C10_TerminalImmutable ==
    [][ /\ \A j \in DOMAIN jobs :
              jobs[j].status \in Terminal => jobs'[j] = jobs[j]
        /\ (TwoPolls(resp, resp') /\ resp[1].body[1].status \in Terminal) =>
              resp' = resp
      ]_vars

\* C11: every stored job has exactly one background task, added by the
\* submission that stored it and never added again; once the clone of a job
\* has been attempted its pipeline stages never run again; and the worker of
\* a job whose status is failed only has its error left to write.
C11_NoRetry ==
    /\ [](\A j \in JobIds : j \in DOMAIN jobs <=> task[j] # None)
    /\ [][ \A j \in JobIds :
              /\ task'[j] # task[j] =>
                    task[j] = None /\ j \notin DOMAIN jobs /\ pc[j] = "idle"
              /\ (pc'[j] = "scheduled" /\ pc[j] # "scheduled") => pc[j] = "idle"
              /\ steps[j].clone # "none" =>
                    steps'[j] = steps[j] /\ pc'[j] \notin {"scheduled", "running"}
              /\ (j \in DOMAIN jobs /\ jobs[j].status = "failed") =>
                    pc'[j] \in {"set_error", "done"}
         ]_vars

\* A job failed on its clone and is over, and the caller has submitted the
\* same repository again under another id.
C11_Witness ==
    \E j, k \in DOMAIN jobs :
        /\ j # k
        /\ jobs[j].status = "failed" /\ pc[j] = "done"
        /\ steps[j].clone = "failed"
        /\ jobs[k].repo_url = jobs[j].repo_url
        /\ pc[k] = "scheduled"

\* The calls of call_gemini_with_fallback the generators of job j made.
GeminiCalls(j) ==
    {c \in {steps[j].summary_call, steps[j].mermaid_call} : c # None}

\* Messages of the "unsupported" kind: they hold "404" or, in whatever
\* case, "not found".
Recognized(msg) == msg \in {Msg_404, Msg_NotFound}

\* C12: in every call of call_gemini_with_fallback the primary model is
\* requested once and first; the fallback model is requested at most once,
\* and only after the primary failed with a message of the unsupported kind;
\* the call returns the first reply it got; and whenever it raises, it
\* raises the error of the primary request.  A summary that is an error
\* placeholder then carries the text of the primary's error.
C12_FallbackPrecedence ==
    \A j \in DOMAIN jobs : \A c \in GeminiCalls(j) :
        LET primary == c[1].given.primary
            fallback == c[1].given.fallback
            requests == c[1].did.requests
            outcome == c[1].did.outcome
        IN /\ requests \in {<<"primary">>, <<"primary", "fallback">>}
           /\ Len(requests) = 2 =>
                 primary.kind = "raise" /\ Recognized(primary.error)
           /\ primary.kind = "return" => outcome = primary
           /\ (Len(requests) = 2 /\ fallback.kind = "return") =>
                 outcome = fallback
           /\ outcome.kind = "raise" =>
                 /\ primary.kind = "raise"
                 /\ outcome.error = primary.error
           /\ (c = steps[j].summary_call /\ outcome.kind = "raise"
               /\ summary[j] # None) =>
                 summary[j][1] = PlaceholderError(primary.error)

\* Both requests of a summary call failed, the primary as unsupported, and
\* the job went on to completion.
C12_Witness ==
    \E j \in DOMAIN jobs :
        /\ steps[j].summary_call # None
        /\ steps[j].summary_call[1].did.requests = <<"primary", "fallback">>
        /\ steps[j].summary_call[1].given.primary = Raise(Msg_404)
        /\ steps[j].summary_call[1].given.fallback = Raise(Msg_fallback)
        /\ jobs[j].status = "completed"

\* A URL of the shape <host>/<owner>/<name>.
WellFormed(repo_url) ==
    Len(repo_url) = 3 /\ \A i \in 1..3 : repo_url[i] # ""

\* C13: a submission whose URL is not of the shape <host>/<owner>/<name> is
\* refused: it is not answered 200, and no clone is ever attempted and no
\* temporary directory ever made for it.
C13_MalformedRejected ==
    /\ \A j \in DOMAIN jobs :
          ~WellFormed(jobs[j].repo_url) =>
              ~(resp # None /\ resp[1].op = "analyze" /\ resp[1].id = j
                /\ resp[1].code = 200)
    /\ \A j \in JobIds :
          (task[j] # None /\ ~WellFormed(task[j][1].repo_url)) =>
              steps[j].clone = "none" /\ tmpdir[j] = "none"

\* The optional field of a response for key k of record rec.
Stored(rec, k) == IF k \in DOMAIN rec THEN Some(rec[k]) ELSE None

\* C14: a get_job_status call changes nothing of the job store, of the
\* scheduled tasks or of the workers, whether the id is stored or not; and
\* the record it answers with holds the id, status, result and error exactly
\* as the store holds them at the call.
C14_PollIsPureRead ==
    [][ (IsGet(resp') /\ resp' # resp) =>
            /\ jobs' = jobs /\ task' = task /\ pc' = pc
            /\ resp'[1].code = 200 <=> resp'[1].id \in DOMAIN jobs
            /\ resp'[1].code = 200 =>
                  LET rec == jobs[resp'[1].id]
                      body == resp'[1].body[1]
                  IN /\ body.job_id = rec.job_id
                     /\ body.status = rec.status
                     /\ body.result = Stored(rec, "result")
                     /\ body.error = Stored(rec, "error")
      ]_vars

\* The latest response is a poll that carries the result of a completed
\* job, and the store holds an unfinished job besides.
C14_Witness ==
    /\ IsFound(resp)
    /\ resp[1].body[1].result # None
    /\ jobs[resp[1].id].result = resp[1].body[1].result[1]
    /\ \E j \in DOMAIN jobs : jobs[j].status = "processing"

\* C15: the id a submission returns is one no earlier submission returned;
\* a stored record keeps its key, its job_id and its repo_url, and no
\* submission puts it back to queued or replaces its task.
C15_IdsUnique ==
    /\ [](\A j \in DOMAIN jobs : jobs[j].job_id = j)
    /\ [][ /\ (resp' # None /\ resp'[1].op = "analyze" /\ resp' # resp) =>
                 resp'[1].id \notin DOMAIN jobs
           /\ \A j \in DOMAIN jobs :
                 /\ j \in DOMAIN jobs'
                 /\ jobs'[j].job_id = jobs[j].job_id
                 /\ jobs'[j].repo_url = jobs[j].repo_url
                 /\ task'[j] = task[j]
                 /\ jobs'[j].status = "queued" => jobs[j].status = "queued"
         ]_vars

\* Every id has been handed out, two of them for the same URL, and the
\* first job's record has moved on.
C15_Witness ==
    /\ DOMAIN jobs = JobIds
    /\ \E j, k \in DOMAIN jobs :
          /\ j # k
          /\ jobs[j].repo_url = jobs[k].repo_url
          /\ jobs[j].status = "completed"
          /\ jobs[k].status = "queued"

\* The segments of a record's path that name directories.
DirSegments(path) == {path[k] : k \in 1..(Len(path) - 1)}

\* C16: a snapshot acquired with the API-tree strategy holds at most 30
\* file records, however long the tree listing is, and no record's path has
\* a vendor, build or version-control directory among its segments.
C16_ApiCapped ==
    snapshot # None =>
        /\ Len(snapshot[1].files) <= 30
        /\ \A k \in 1..Len(snapshot[1].files) :
              DirSegments(snapshot[1].files[k].path)
                  \cap {"node_modules", "vendor", "dist", "build", ".git"} = {}

\* A listing with more than 30 acceptable entries, and entries under
\* node_modules between them, has been acquired.
C16_Witness ==
    /\ snapshot # None
    /\ Len(FilterEntries(listing[1])) > 30
    /\ \E k \in 1..Len(listing[1]) : listing[1][k].dir[1] = "node_modules"
    /\ Len(snapshot[1].files) > 0

\* The version-control metadata directory itself.
InVcsMetadata(f) == f.root = Str_git

\* C17: the snapshot analyze_repo returns for a cloned tree has exactly one
\* record for each file with a supported extension outside the .git
\* directory, .github included, no record for any other file, and no path
\* twice.
C17_SnapshotExact ==
    \A j \in DOMAIN jobs :
        (cloned[j] # None /\ graph_data[j] # None) =>
            LET t == cloned[j][1]
                files == graph_data[j][1].files
                Wanted(f) == Supported(f) /\ ~InVcsMetadata(f)
            IN /\ \A i \in 1..Len(t) :
                     Wanted(t[i]) =>
                         Cardinality({k \in 1..Len(files) :
                                         files[k].path = PathOf(t[i])}) = 1
               /\ \A k \in 1..Len(files) :
                     \E i \in 1..Len(t) :
                         Wanted(t[i]) /\ files[k].path = PathOf(t[i])
               /\ \A k, l \in 1..Len(files) :
                     k # l => files[k].path # files[l].path

\* Nothing of job j's pipeline has happened: no clone, no walk, no
\* generator, no temporary directory.
Untouched(j) ==
    /\ steps[j] = NoSteps
    /\ tmpdir[j] = "none"
    /\ cloned[j] = None
    /\ graph_data[j] = None /\ summary[j] = None /\ mermaid_code[j] = None

\* C18: while the status of a job is queued nothing of its pipeline has
\* happened, and every step in which its clone, its walk or a generator
\* runs starts from a state in which its status is processing.
C18_ProcessingBeforeIO ==
    /\ [](\A j \in DOMAIN jobs : jobs[j].status = "queued" => Untouched(j))
    /\ [][ \A j \in DOMAIN jobs :
              (steps'[j] # steps[j] \/ tmpdir'[j] # tmpdir[j]
               \/ cloned'[j] # cloned[j]) =>
                  jobs[j].status = "processing"
         ]_vars

\* One job has cloned and walked and is still processing while another is
\* queued and untouched.
C18_Witness ==
    \E j, k \in DOMAIN jobs :
        /\ jobs[j].status = "processing"
        /\ steps[j].clone = "ok" /\ steps[j].walk = "return"
        /\ jobs[k].status = "queued" /\ Untouched(k)

\* The keys of a record that its worker assigns.
WorkerKeys == {"status", "result", "error"}

\* C19: a step of the worker of job a keeps the set of stored ids, leaves
\* the record, the task and the worker of every other job as they are, and
\* of the record of a changes at most status, result and error: every other
\* key keeps its value and no other key appears.
C19_JobsIndependent ==
    [][ \A a \in DOMAIN jobs :
            pc'[a] # pc[a] =>
                /\ DOMAIN jobs' = DOMAIN jobs
                /\ \A b \in JobIds \ {a} :
                      /\ b \in DOMAIN jobs => jobs'[b] = jobs[b]
                      /\ task'[b] = task[b] /\ pc'[b] = pc[b]
                      /\ steps'[b] = steps[b] /\ tmpdir'[b] = tmpdir[b]
                /\ DOMAIN jobs'[a] \subseteq DOMAIN jobs[a] \cup WorkerKeys
                /\ \A k \in DOMAIN jobs[a] \ WorkerKeys :
                      k \in DOMAIN jobs'[a] /\ jobs'[a][k] = jobs[a][k]
      ]_vars

\* Two workers have run interleaved: one job is completed and has its
\* result, another has failed and is about to write its error.
C19_Witness ==
    \E a, b \in DOMAIN jobs :
        /\ jobs[a].status = "completed" /\ "result" \in DOMAIN jobs[a]
        /\ jobs[b].status = "failed" /\ pc[b] = "set_error"
        /\ jobs[a].repo_url = Url_r /\ jobs[b].repo_url = Url_missing

\* C20: no record carries both a result and an error; a record whose status
\* is failed has an error and no result; a record whose status is queued or
\* processing has neither.
C20_ResultXorError ==
    \A j \in DOMAIN jobs :
        /\ ~("result" \in DOMAIN jobs[j] /\ "error" \in DOMAIN jobs[j])
        /\ jobs[j].status = "failed" =>
              "error" \in DOMAIN jobs[j] /\ "result" \notin DOMAIN jobs[j]
        /\ jobs[j].status \in {"queued", "processing"} =>
              "error" \notin DOMAIN jobs[j] /\ "result" \notin DOMAIN jobs[j]

====
